---- MODULE Spec2Model ----
(***************************************************************************)
(* fblib: the Graph API facades (core.UserAPI, core.AppAPI) and the Send   *)
(* API facade (messenger.sendapi.SendAPI), as a state machine.             *)
(*                                                                         *)
(* The state is the one AppAPI instance's cached access_token plus a       *)
(* record of the last facade invocation: the requests it handed to the     *)
(* transport, the responses it got, and how it ended.  Every action is one *)
(* facade method, run to its end; the transport's responses are chosen     *)
(* nondeterministically.  calls counts the invocations made so far.        *)
(*                                                                         *)
(* A second specification, ConcSpec, runs AppAPI._call_api statement by    *)
(* statement for two callers that share the one AppAPI instance; callers   *)
(* holds each caller's position and local variables.                       *)
(***************************************************************************)
EXTENDS Integers, Sequences, FiniteSets, TLC

VARIABLES access_token, last, calls, callers

vars == <<access_token, last, calls, callers>>

(***************************************************************************)
(* Python / JSON values, tagged so that values of different types compare. *)
(* A str holds its text; a dict is a function on its keys.                 *)
(***************************************************************************)
PyNone == [t |-> "none"]
PyStr(s) == [t |-> "str", s |-> s]
PyBool(b) == [t |-> "bool", b |-> b]
PyInt(n) == [t |-> "int", n |-> n]
PyDict(m) == [t |-> "dict", m |-> m]
PyList(l) == [t |-> "list", l |-> l]
\* a builder object: an instance of class cls with its self.syntax dict
PyObj(cls, syntax) == [t |-> "obj", cls |-> cls, syntax |-> syntax]
\* a bound method object, what the attribute `res.json` evaluates to
PyMethod == [t |-> "method"]
\* a response body that is no JSON text: res.json() raises ValueError on it
NotJson == [t |-> "notjson"]

\* a member of an Enum class: it has a value but is no str
PyEnum(cls, value) == [t |-> "enum", cls |-> cls, value |-> value]
\* an argument the caller did not pass
Omitted == [t |-> "omitted"]

EmptyDict == [k \in {} |-> PyNone]

\* a parameter with a default: the argument, or the default when not passed
Default(arg, default) == IF arg = Omitted THEN default ELSE arg

\* bool(v): Python truthiness of the values the facades test
Truthy(v) ==
    CASE v.t = "none" -> FALSE
      [] v.t = "str" -> v.s # ""
      [] v.t = "bool" -> v.b
      [] v.t = "int" -> v.n # 0
      [] v.t = "dict" -> DOMAIN v.m # {}
      [] v.t = "list" -> Len(v.l) > 0
      [] OTHER -> TRUE

\* dict.get(key): the value, or None when the key is absent
DictGet(d, key) == IF key \in DOMAIN d.m THEN d.m[key] ELSE PyNone

\* dict.update(other) on the functions: other's items win
DictUpdate(m, other) ==
    [k \in (DOMAIN m) \cup (DOMAIN other) |->
        IF k \in DOMAIN other THEN other[k] ELSE m[k]]

\* hasattr(v, '__contains__'): str, dict and list have it; bool, int, None
\* and bound methods do not
HasContains(v) == v.t \in {"str", "dict", "list"}

\* the characters of the str values that occur as a whole response body
\* (TLC strings are atoms; containment is computed on the characters)
Chars(s) ==
    CASE s = "error" -> <<"e", "r", "r", "o", "r">>
      [] s = "an error occurred" ->
            <<"a", "n", " ", "e", "r", "r", "o", "r", " ",
              "o", "c", "c", "u", "r", "r", "e", "d">>
      [] s = "ok" -> <<"o", "k">>
      [] s = "" -> <<>>

\* sub in s for two str: sub occurs in s as a contiguous run
IsSubstring(sub, s) ==
    \E i \in 0..(Len(s) - Len(sub)) :
        \A j \in 1..Len(sub) : s[i + j] = sub[j]

\* the expression `'error' in v`: "true", "false", or "TypeError" when v is
\* not a container (argument of type 'bool' is not iterable)
InError(v) ==
    CASE v.t = "dict" -> IF "error" \in DOMAIN v.m THEN "true" ELSE "false"
      [] v.t = "str" ->
            IF IsSubstring(Chars("error"), Chars(v.s)) THEN "true" ELSE "false"
      [] v.t = "list" ->
            IF \E i \in 1..Len(v.l) : v.l[i] = PyStr("error")
            THEN "true" ELSE "false"
      [] OTHER -> "TypeError"

(***************************************************************************)
(* How an invocation ends: a returned value, or a raised exception.        *)
(***************************************************************************)
Return(v) == [kind |-> "return", exc |-> "", value |-> v, message |-> PyNone]
Raise(exc) == [kind |-> "raise", exc |-> exc, value |-> PyNone, message |-> PyNone]

\* a FacebookError that keeps only the text of the nested error as its message
FacebookError_text(value) ==
    IF value.t = "dict"
    THEN [kind |-> "raise", exc |-> "FacebookError", value |-> value,
          message |-> IF DictGet(value, "error").t = "dict"
                      THEN DictGet(DictGet(value, "error"), "message")
                      ELSE PyNone]
    ELSE Raise("AttributeError")

\* FacebookError(value): __init__ keeps value and reads value.get('error');
\* a value with no get method makes the constructor itself raise
FacebookError(value) ==
    IF value.t = "dict"
    THEN [kind |-> "raise", exc |-> "FacebookError",
          value |-> value, message |-> DictGet(value, "error")]
    ELSE Raise("AttributeError")

(***************************************************************************)
(* The transport: requests.request / requests.get.  One exchange is the    *)
(* request handed to it and the response it gave back.                     *)
(***************************************************************************)
api_url == "https://graph.facebook.com"
api_version == "v2.6"

\* '/'.join(parts)
RECURSIVE JoinSlash(_)
JoinSlash(parts) ==
    IF Len(parts) = 1 THEN parts[1]
    ELSE parts[1] \o "/" \o JoinSlash(Tail(parts))

\* requests.request(http_method, url, params=..., json=..., files=...)
HttpUpload(http_method, url, params, json, files) ==
    [http_method |-> http_method, url |-> url, params |-> params,
     json |-> json, files |-> files]

HttpRequest(http_method, url, params, json) ==
    HttpUpload(http_method, url, params, json, PyNone)

\* the binding of `files=None, **kwargs` in the signature of _call_api: the
\* keyword `files` of the caller is the parameter files, the rest is kwargs
files_of(keywords) ==
    IF "files" \in DOMAIN keywords THEN keywords["files"] ELSE PyNone

\* a binding that loses the caller's keywords
kwargs_dropped(keywords) == EmptyDict

kwargs_of(keywords) ==
    [k \in DOMAIN keywords \ {"files"} |-> keywords[k]]

Response(status_code, body) ==
    [t |-> "response", status_code |-> status_code, body |-> body]

Exchange(req, res) == [request |-> req, response |-> res]

\* the outcome of one run of a handler: the instance's access_token after
\* it, the exchanges it made in order, and how it ended
Run(token, sent, outcome) == [token |-> token, sent |-> sent, outcome |-> outcome]

\* `return res.json()` in the public methods: the decoded body of the
\* response _call_api returned (it decoded before, so it decodes again)
ResJson(run) ==
    IF run.outcome.kind = "return"
    THEN [run EXCEPT !.outcome = Return(run.outcome.value.body)]
    ELSE run

(***************************************************************************)
(* core.UserAPI                                                            *)
(***************************************************************************)
UserAPI_call_api(self_token, http_method, api_method, kwargs, res) ==
    LET url == JoinSlash(<<api_url, api_method>>)
        params == DictUpdate([access_token |-> self_token], kwargs_of(kwargs))
        sent == <<Exchange(HttpUpload(http_method, url, params, PyNone,
                                      files_of(kwargs)), res)>>
        json_data == res.body
    IN  IF json_data = NotJson THEN Run(self_token, sent, Raise("ValueError"))
        ELSE IF InError(json_data) = "TypeError"
        THEN Run(self_token, sent, Raise("TypeError"))
        ELSE IF InError(json_data) = "true"
        THEN Run(self_token, sent, FacebookError(json_data))
        ELSE Run(self_token, sent, Return(res))

UserAPI_get_objects(self_token, object_id, kwargs, res) ==
    ResJson(UserAPI_call_api(self_token, "GET", object_id, kwargs, res))

UserAPI_get_connections(self_token, object_id, connection, kwargs, res) ==
    ResJson(UserAPI_call_api(self_token, "GET",
                             object_id \o "/" \o connection, kwargs, res))

UserAPI_publish(self_token, object_id, connection, kwargs, res) ==
    ResJson(UserAPI_call_api(self_token, "POST",
                             object_id \o "/" \o connection, kwargs, res))

\* a delete that tunnels through POST
UserAPI_delete_as_post(self_token, object_id, res) ==
    ResJson(UserAPI_call_api(self_token, "POST", object_id,
                             [method |-> PyStr("delete")], res))

UserAPI_delete(self_token, object_id, res) ==
    ResJson(UserAPI_call_api(self_token, "DELETE", object_id, EmptyDict, res))

(***************************************************************************)
(* core.AppAPI                                                             *)
(***************************************************************************)
app_id == "390492104572701"
app_secret == "5afa25cc01ea0440c340e20e2c6a8df"

MintUrl == JoinSlash(<<api_url, "oauth/access_token">>)

\* a _get_access_token that stores whatever came back, without the error check
AppAPI_get_access_token_unchecked(self_token, res) ==
    LET params == [client_id |-> PyStr(app_id),
                   client_secret |-> PyStr(app_secret),
                   grant_type |-> PyStr("client_credentials")]
        sent == <<Exchange(HttpRequest("GET", MintUrl, params, PyNone), res)>>
        json_data == res.body
    IN  IF json_data = NotJson THEN Run(self_token, sent, Raise("ValueError"))
        ELSE IF json_data.t # "dict"
        THEN Run(self_token, sent, Raise("AttributeError"))
        ELSE Run(DictGet(json_data, "access_token"), sent,
                 Return(DictGet(json_data, "access_token")))

\* _get_access_token: the mint request, the error check, then the store
AppAPI_get_access_token(self_token, res) ==
    LET params == [client_id |-> PyStr(app_id),
                   client_secret |-> PyStr(app_secret),
                   grant_type |-> PyStr("client_credentials")]
        sent == <<Exchange(HttpRequest("GET", MintUrl, params, PyNone), res)>>
        json_data == res.body
    IN  IF json_data = NotJson THEN Run(self_token, sent, Raise("ValueError"))
        ELSE IF HasContains(json_data) /\ InError(json_data) = "true"
        THEN Run(self_token, sent, FacebookError(json_data))
        ELSE IF json_data.t # "dict"
        THEN Run(self_token, sent, Raise("AttributeError"))
        ELSE Run(DictGet(json_data, "access_token"), sent,
                 Return(DictGet(json_data, "access_token")))

\* a token check that mints before every call
AppAPI_ensure_token_always(self_token, mint_res) ==
    AppAPI_get_access_token(self_token, mint_res)

\* a token check with the test inverted: it mints when a token is cached
AppAPI_ensure_token_inverted(self_token, mint_res) ==
    IF Truthy(self_token)
    THEN AppAPI_get_access_token(self_token, mint_res)
    ELSE Run(self_token, <<>>, Return(self_token))

\* the head of _call_api: `if not self.access_token: self._get_access_token()`
AppAPI_ensure_token(self_token, mint_res) ==
    IF ~Truthy(self_token)
    THEN AppAPI_get_access_token(self_token, mint_res)
    ELSE Run(self_token, <<>>, Return(self_token))

\* a _call_api that goes on to the target after a mint that raised
AppAPI_call_api_ignoring_mint_fault(self_token, http_method, api_method, kwargs, mint_res, res) ==
    LET minted == AppAPI_ensure_token(self_token, mint_res)
        url == JoinSlash(<<api_url, app_id, api_method>>)
        params == DictUpdate([access_token |-> minted.token], kwargs_of(kwargs))
        sent == minted.sent \o
                <<Exchange(HttpUpload(http_method, url, params, PyNone,
                                      files_of(kwargs)), res)>>
    IN  Run(minted.token, sent, Return(res))

\* _call_api: mint when no token is cached, then the request itself
AppAPI_call_api(self_token, http_method, api_method, kwargs, mint_res, res) ==
    LET minted == AppAPI_ensure_token(self_token, mint_res)
        url == JoinSlash(<<api_url, app_id, api_method>>)
        params == DictUpdate([access_token |-> minted.token], kwargs_of(kwargs))
        sent == minted.sent \o
                <<Exchange(HttpUpload(http_method, url, params, PyNone,
                                      files_of(kwargs)), res)>>
        json_data == res.body
    IN  IF minted.outcome.kind = "raise" THEN minted
        ELSE IF json_data = NotJson
        THEN Run(minted.token, sent, Raise("ValueError"))
        ELSE IF InError(json_data) = "TypeError"
        THEN Run(minted.token, sent, Raise("TypeError"))
        ELSE IF InError(json_data) = "true"
        THEN Run(minted.token, sent, FacebookError(json_data))
        ELSE Run(minted.token, sent, Return(res))

\* a get_app_access_token that never looks at the cached token
AppAPI_get_app_access_token_nocache(self_token, mint_res) ==
    AppAPI_get_access_token(self_token, mint_res)

\* get_app_access_token: self.access_token or self._get_access_token()
AppAPI_get_app_access_token(self_token, mint_res) ==
    IF Truthy(self_token)
    THEN Run(self_token, <<>>, Return(self_token))
    ELSE AppAPI_get_access_token(self_token, mint_res)

\* an analytics that asks for all the insights, whatever the metric
AppAPI_analytics_without_metric(self_token, metric, kwargs, mint_res, res) ==
    ResJson(AppAPI_call_api(self_token, "GET", "insights", kwargs,
                            mint_res, res))

AppAPI_analytics(self_token, metric, kwargs, mint_res, res) ==
    LET api_method == IF Truthy(metric)
                      THEN JoinSlash(<<"insights", metric.s>>)
                      ELSE "insights"
    IN  ResJson(AppAPI_call_api(self_token, "GET", api_method, kwargs,
                                mint_res, res))

AppAPI_get_list_of_test_users(self_token, kwargs, mint_res, res) ==
    ResJson(AppAPI_call_api(self_token, "GET", "accounts/test-users", kwargs,
                            mint_res, res))

\* a create_test_user that sends the creation as an HTTP POST
AppAPI_create_test_user_as_post(self_token, installed, name, locale, permissions, method, kwargs, mint_res, res) ==
    LET params == [installed |-> Default(installed, PyBool(TRUE)),
                   name |-> Default(name, PyStr("John Smith")),
                   locale |-> Default(locale, PyStr("en_US")),
                   method |-> Default(method, PyStr("post"))]
    IN  ResJson(AppAPI_call_api(self_token, "POST", "accounts/test-users",
                                DictUpdate(kwargs, params), mint_res, res))

AppAPI_create_test_user(self_token, installed, name, locale, permissions, method, kwargs, mint_res, res) ==
    LET params == [installed |-> Default(installed, PyBool(TRUE)),
                   name |-> Default(name, PyStr("John Smith")),
                   locale |-> Default(locale, PyStr("en_US")),
                   method |-> Default(method, PyStr("post"))]
        params2 == IF Truthy(Default(permissions, PyNone))
                   THEN DictUpdate(params, [permissions |-> permissions])
                   ELSE params
    IN  ResJson(AppAPI_call_api(self_token, "GET", "accounts/test-users",
                                DictUpdate(kwargs, params2), mint_res, res))

(***************************************************************************)
(* messenger.common: the builder classes                                   *)
(***************************************************************************)
\* the classes that inherit RequestConstructor.build; Recipient is not one
RequestConstructors ==
    {"RequestConstructor", "Payload", "Template", "Attachment", "QuickReply",
     "Message", "Request", "Button", "DefaultAction", "GenericElement",
     "GenericTemplate", "ListTemplate", "ButtonTemplate",
     "URLButton", "PostbackButton", "ShareButton", "CallButton",
     "LogOutButton", "PriceList", "PaymentSummary"}

\* hasattr(message, 'build')
HasBuild(v) == v.t = "obj" /\ v.cls \in RequestConstructors

\* a build that keeps the items whose value is true
build_truthy(self) ==
    PyDict([k \in {x \in DOMAIN self.syntax : Truthy(self.syntax[x])} |->
                self.syntax[k]])

\* RequestConstructor.build: self.syntax without the items whose value is
\* None; the values that stay are put in as they are
build(self) ==
    PyDict([k \in {x \in DOMAIN self.syntax : self.syntax[x] # PyNone} |->
                self.syntax[k]])

\* a build that takes the None items out of self.syntax itself
self_pruned_by_build(self) == PyObj(self.cls, build(self).m)

\* the builder after build(): the comprehension reads self.syntax and
\* assigns nothing
self_after_build(self) == self

\* `v.build()` on any value: AttributeError when it has no build method
CallBuild(v) == IF HasBuild(v) THEN Return(build(v)) ELSE Raise("AttributeError")

\* a call that leaves out a parameter without a default is a TypeError
MissingArgument(required) == Omitted \in required

Recipient(id_, phone_number, user_ref, name) ==
    IF MissingArgument({id_, phone_number, user_ref, name})
    THEN Raise("TypeError")
    ELSE Return(PyObj("Recipient",
                      [id |-> id_, phone_number |-> phone_number,
                       user_ref |-> user_ref, name |-> name]))

Payload(url, file, attachment_id, is_reusable) ==
    Return(PyObj("Payload",
                 [url |-> Default(url, PyNone),
                  attachment_id |-> Default(attachment_id, PyNone),
                  is_reusable |-> Default(is_reusable, PyNone)]))

Attachment(type_, payload) ==
    IF MissingArgument({type_, payload}) THEN Raise("TypeError")
    ELSE Return(PyObj("Attachment", [type |-> type_, payload |-> payload]))

QuickReply(content_type, title, payload, image_url) ==
    IF MissingArgument({content_type}) THEN Raise("TypeError")
    ELSE Return(PyObj("QuickReply",
                      [content_type |-> content_type,
                       title |-> Default(title, PyNone),
                       payload |-> Default(payload, PyNone),
                       image_url |-> Default(image_url, PyNone)]))

Message(text, attachment, quick_replies, metadata) ==
    Return(PyObj("Message",
                 [text |-> Default(text, PyNone),
                  attachment |-> Default(attachment, PyNone),
                  quick_replies |-> Default(quick_replies, PyNone),
                  metadata |-> Default(metadata, PyNone)]))

Request(messaging_type, recipient, message, sender_action, notification_type, tag) ==
    IF MissingArgument({messaging_type, recipient}) THEN Raise("TypeError")
    ELSE Return(PyObj("Request",
                      [messaging_type |-> messaging_type,
                       recipient |-> recipient,
                       message |-> Default(message, PyNone),
                       sender_action |-> Default(sender_action, PyNone),
                       notification_type |-> Default(notification_type, PyNone),
                       tag |-> Default(tag, PyNone)]))

(***************************************************************************)
(* messenger.buttons and messenger.templates                               *)
(***************************************************************************)
ButtonVariants ==
    {"URLButton", "PostbackButton", "ShareButton", "CallButton", "LogOutButton"}
TemplateVariants == {"GenericTemplate", "ListTemplate", "ButtonTemplate"}

\* the class attribute type_ of a button class
type_(cls) ==
    CASE cls = "URLButton" -> "web_url"
      [] cls = "PostbackButton" -> "postback"
      [] cls = "ShareButton" -> "element_share"
      [] cls = "CallButton" -> "phone_number"
      [] cls = "LogOutButton" -> "account_unlink"
      [] OTHER -> "Button type"

\* the class attribute templates of a button class: the classes it lists
templates(cls) ==
    CASE cls \in {"URLButton", "PostbackButton"} -> {"Button", "GenericTemplate"}
      [] cls = "ShareButton" -> {"GenericTemplate", "ListTemplate", "MediaTemplate"}
      [] cls \in {"CallButton", "LogOutButton"} ->
            {"GenericTemplate", "ListTemplate", "ButtonTemplate", "MediaTemplate"}
      [] OTHER -> {}

\* the class attribute template_type of a template class
template_type(cls) ==
    CASE cls = "GenericTemplate" -> "generic"
      [] cls = "ListTemplate" -> "list"
      [] cls = "ButtonTemplate" -> "button"

URLButton(title, url, webview_height_ratio, messenger_extensions, fallback_url, webview_share_button) ==
    IF MissingArgument({title, url}) THEN Raise("TypeError")
    ELSE Return(PyObj("URLButton",
                      [type |-> PyStr(type_("URLButton")),
                       url |-> url,
                       title |-> title,
                       webview_height_ratio |-> Default(webview_height_ratio, PyNone),
                       messenger_extensions |-> Default(messenger_extensions, PyNone),
                       fallback_url |-> Default(fallback_url, PyNone),
                       webview_share_button |-> Default(webview_share_button, PyNone)]))

PostbackButton(title, payload) ==
    IF MissingArgument({title, payload}) THEN Raise("TypeError")
    ELSE Return(PyObj("PostbackButton",
                      [type |-> PyStr(type_("PostbackButton")),
                       title |-> title, payload |-> payload]))

ShareButton(share_contents) ==
    Return(PyObj("ShareButton",
                 [type |-> PyStr(type_("ShareButton")),
                  title |-> Default(share_contents, PyNone)]))

PriceList(label, amount) ==
    IF MissingArgument({label, amount}) THEN Raise("TypeError")
    ELSE Return(PyObj("PriceList", [label |-> label, amount |-> amount]))

PaymentSummary(currency, payment_type, merchant_name, requested_user_info, price_list, is_test_payment) ==
    IF MissingArgument({currency, payment_type, merchant_name,
                        requested_user_info, price_list})
    THEN Raise("TypeError")
    ELSE Return(PyObj("PaymentSummary",
                      [currency |-> currency,
                       payment_type |-> payment_type,
                       is_test_payment |-> Default(is_test_payment, PyNone),
                       merchant_name |-> merchant_name,
                       requested_user_info |-> requested_user_info,
                       price_list |-> price_list]))

CallButton(title, payload) ==
    IF MissingArgument({title, payload}) THEN Raise("TypeError")
    ELSE Return(PyObj("CallButton",
                      [type |-> PyStr(type_("CallButton")),
                       title |-> title, payload |-> payload]))

LogOutButton ==
    Return(PyObj("LogOutButton", [type |-> PyStr(type_("LogOutButton"))]))

GenericElement(title, subtitle, image_url, default_action, buttons) ==
    IF MissingArgument({title}) THEN Raise("TypeError")
    ELSE Return(PyObj("GenericElement",
                      [title |-> title,
                       image_url |-> Default(image_url, PyNone),
                       subtitle |-> Default(subtitle, PyNone),
                       default_action |-> Default(default_action, PyNone),
                       buttons |-> Default(buttons, PyNone)]))

\* object.__init__, where super().__init__ of a template class ends up since
\* neither Template nor RequestConstructor defines __init__: it takes no
\* keyword arguments
object_init(cls, kwargs) ==
    IF DOMAIN kwargs # {} THEN Raise("TypeError")
    ELSE Return(PyObj(cls, EmptyDict))

GenericTemplate(recipient, elements) ==
    IF MissingArgument({recipient, elements}) THEN Raise("TypeError")
    ELSE LET payload == PyDict([template_type |-> PyStr(template_type("GenericTemplate")),
                                elements |-> elements])
         IN  object_init("GenericTemplate",
                         [recipient |-> recipient, payload |-> payload])

ListTemplate(recipient, elements, top_element_style, buttons) ==
    IF MissingArgument({recipient, elements}) THEN Raise("TypeError")
    ELSE LET payload == PyDict([template_type |-> PyStr(template_type("ListTemplate")),
                                top_element_style |-> Default(top_element_style, PyNone),
                                buttons |-> Default(buttons, PyNone),
                                elements |-> elements])
         IN  object_init("ListTemplate",
                         [recipient |-> recipient, payload |-> payload])

ButtonTemplate(recipient, text, buttons) ==
    IF MissingArgument({recipient, text}) THEN Raise("TypeError")
    ELSE LET payload == PyDict([template_type |-> PyStr(template_type("ButtonTemplate")),
                                text |-> text,
                                buttons |-> Default(buttons, PyNone)])
         IN  object_init("ButtonTemplate",
                         [recipient |-> recipient, payload |-> payload])

(***************************************************************************)
(* messenger.sendapi.SendAPI                                               *)
(***************************************************************************)
\* json.dumps inside requests: dict, list, str, bool, int and None encode;
\* a builder object or an Enum member does not
RECURSIVE JsonSerializable(_)
JsonSerializable(v) ==
    CASE v.t = "dict" -> \A k \in DOMAIN v.m : JsonSerializable(v.m[k])
      [] v.t = "list" -> \A i \in 1..Len(v.l) : JsonSerializable(v.l[i])
      [] v.t \in {"str", "bool", "int", "none"} -> TRUE
      [] OTHER -> FALSE

\* what the exchange holds in place of a response when requests raised
\* while preparing the request: nothing went out
Refused == [t |-> "refused", status_code |-> 0, body |-> NotJson]

\* the attribute res.json (not called): a bound method of the response
ResJsonAttr(res) == PyMethod

SendAPI_call_api(self_token, http_method, api_method, json, kwargs, res) ==
    LET url == JoinSlash(<<api_url, api_version, api_method>>)
        params == DictUpdate([access_token |-> self_token], kwargs)
        req == HttpRequest(http_method, url, params, json)
        sent == <<Exchange(req, res)>>
    IN  IF ~JsonSerializable(json)
        THEN Run(self_token, <<Exchange(req, Refused)>>, Raise("TypeError"))
        ELSE IF HasContains(ResJsonAttr(res)) /\ InError(ResJsonAttr(res)) = "true"
        THEN Run(self_token, sent, FacebookError(ResJsonAttr(res)))
        ELSE Run(self_token, sent, Return(res))

SendAPI_page_message_tags(self_token, res) ==
    SendAPI_call_api(self_token, "GET", "page_message_tags", PyNone,
                     EmptyDict, res)

SendAPI_send_message(self_token, message, res) ==
    LET template == IF HasBuild(message) THEN build(message) ELSE message
    IN  SendAPI_call_api(self_token, "POST", "me/messages", template,
                         EmptyDict, res)

(***************************************************************************)
(* Inputs: the callers' arguments and the transport's responses.           *)
(***************************************************************************)
\* how many different tokens the token endpoint may hand out
MaxTokens == 2

\* how many facade invocations a behaviour makes
MaxCalls == 3

MintTokens == {PyStr("app-token-" \o ToString(i)) : i \in 1..MaxTokens}

\* UserAPI(access_token) and SendAPI(access_token): the callers' credentials
UserToken == PyStr("AAACEdEose0cBANLuYDa229TKr74oI6UYZC3BTZA")
PageToken == PyStr("page-token")

OAuthError ==
    PyDict([error |-> PyDict([message |-> PyStr("Invalid OAuth access token."),
                              type |-> PyStr("OAuthException"),
                              code |-> PyInt(190)])])

\* what an endpoint may answer: decoded JSON values, or no JSON at all
Bodies ==
    {PyDict([data |-> PyList(<<>>)]),         \* a listing
     PyDict(EmptyDict),                       \* {}
     OAuthError,
     PyBool(TRUE),                            \* what a delete answers
     PyStr("ok"), PyStr("an error occurred"), \* bare strings
     NotJson}

\* what the token endpoint may answer
MintBodies ==
    {PyDict([access_token |-> tok]) : tok \in MintTokens \cup {PyStr("")}}
    \cup {PyDict(EmptyDict), OAuthError, PyStr("an error occurred"), NotJson}

\* the status is the transport's; a non-2xx answer comes with or without an
\* error object
Statuses == {200, 400}

StatusesOf(body) ==
    IF body \in {OAuthError, PyDict([data |-> PyList(<<>>)])}
    THEN Statuses ELSE {200}

Responses == UNION {{Response(sc, body) : sc \in StatusesOf(body)} : body \in Bodies}

MintResponses ==
    UNION {{Response(sc, body) : sc \in StatusesOf(body)} : body \in MintBodies}

\* the mint responses that matter to a call made with `token` cached: one
\* (never read) when _call_api does not mint
MintResponsesFor(token) ==
    IF Truthy(token) THEN {Response(200, PyDict(EmptyDict))} ELSE MintResponses

\* the answers of the target endpoint that matter after the token check:
\* one (never read) when the mint request faulted and _call_api stopped there
ResponsesAfter(token, mint_res) ==
    IF AppAPI_ensure_token(token, mint_res).outcome.kind = "raise"
    THEN {Response(200, PyDict(EmptyDict))} ELSE Responses

\* the extra keywords of the UserAPI and AppAPI methods: none, a field
\* selection together with a file to upload, or a token of the caller's
Kwargs == {EmptyDict,
           [fields |-> PyStr("first_name"),
            files |-> PyDict([source |-> PyStr("photo.jpg")])],
           [access_token |-> PyStr("caller-token")]}

ObjectIds == {"me"}
\* the objects delete is called on: a node and a path below a node
DeleteIds == {"me", "1234567890/picture"}
Connections == {"feed"}
\* no metric, the empty metric, a metric with a '/' in it
Metrics == {PyNone, PyStr(""), PyStr("application_canvas_views/day")}
\* the arguments of create_test_user: none given, the name alone, or all
TestUserArgs ==
    {[installed |-> Omitted, name |-> Omitted, locale |-> Omitted,
      permissions |-> Omitted, method |-> Omitted],
     [installed |-> Omitted, name |-> PyStr("Serg Ivanov"), locale |-> Omitted,
      permissions |-> Omitted, method |-> Omitted],
     [installed |-> PyBool(FALSE), name |-> PyStr("Open Graph Test User"),
      locale |-> PyStr("ru_RU"), permissions |-> PyStr("read_stream"),
      method |-> PyStr("get")]}

Messages ==
    {PyDict([recipient |-> PyDict([id |-> PyStr("123")]),
             message |-> PyDict([text |-> PyStr("hi")])]),
     PyObj("Message", [text |-> PyStr("hi"), attachment |-> PyNone,
                       quick_replies |-> PyNone, metadata |-> PyNone]),
     PyObj("Request", [messaging_type |-> PyEnum("MessagingType", "RESPONSE"),
                       recipient |-> PyObj("Recipient",
                                           [id |-> PyStr("123"),
                                            phone_number |-> PyNone,
                                            user_ref |-> PyNone,
                                            name |-> PyNone]),
                       message |-> PyObj("Message",
                                         [text |-> PyStr("hi"),
                                          attachment |-> PyNone,
                                          quick_replies |-> PyNone,
                                          metadata |-> PyNone]),
                       sender_action |-> PyNone, notification_type |-> PyNone,
                       tag |-> PyNone])}

(***************************************************************************)
(* The state machine.                                                      *)
(***************************************************************************)
\* the record of one invocation: the method, the token cached before it,
\* its keyword and positional arguments, what it sent and how it ended
CallWith(api, method, pre, kwargs, arg, run) ==
    [api |-> api, method |-> method, pre |-> pre, kwargs |-> kwargs,
     arg |-> arg, sent |-> run.sent, outcome |-> run.outcome]

Call(api, method, pre, kwargs, run) ==
    CallWith(api, method, pre, kwargs, PyNone, run)

NoCall == Call("", "", PyNone, EmptyDict, Run(PyNone, <<>>, Return(PyNone)))

IsMint(ex) == ex.request.url = MintUrl

Mints(sent) == Cardinality({i \in 1..Len(sent) : IsMint(sent[i])})

\* the callers that may share the AppAPI instance
Callers == {"caller-1", "caller-2"}

\* a caller inside _call_api: where it stands, what it was called with, the
\* token its own mint request returned, the params it built, what it sent
Caller(pc, method, kwargs, minted, params, sent) ==
    [pc |-> pc, method |-> method, kwargs |-> kwargs, minted |-> minted,
     params |-> params, sent |-> sent]

Idle == Caller("idle", "", EmptyDict, PyNone, EmptyDict, <<>>)

\* AppAPI.__init__ leaves access_token None; nothing has been called
Init ==
    /\ access_token = PyNone
    /\ last = NoCall
    /\ calls = 0
    /\ callers = [c \in Callers |-> Idle]

\* one more invocation is made, by a single caller
Invoke ==
    /\ calls < MaxCalls
    /\ calls' = calls + 1
    /\ UNCHANGED callers

get_objects ==
    /\ Invoke
    /\ \E object_id \in ObjectIds, kwargs \in Kwargs, res \in Responses :
           /\ last' = Call("UserAPI", "get_objects", PyNone, kwargs,
                           UserAPI_get_objects(UserToken, object_id, kwargs, res))
           /\ UNCHANGED access_token

get_connections ==
    /\ Invoke
    /\ \E object_id \in ObjectIds, connection \in Connections,
          kwargs \in Kwargs, res \in Responses :
           /\ last' = Call("UserAPI", "get_connections", PyNone, kwargs,
                           UserAPI_get_connections(UserToken, object_id,
                                                   connection, kwargs, res))
           /\ UNCHANGED access_token

publish ==
    /\ Invoke
    /\ \E object_id \in ObjectIds, connection \in Connections,
          kwargs \in Kwargs, res \in Responses :
           /\ last' = Call("UserAPI", "publish", PyNone, kwargs,
                           UserAPI_publish(UserToken, object_id, connection,
                                           kwargs, res))
           /\ UNCHANGED access_token

delete ==
    /\ Invoke
    /\ \E object_id \in DeleteIds, res \in Responses :
           /\ last' = CallWith("UserAPI", "delete", PyNone, EmptyDict,
                               PyStr(object_id),
                               UserAPI_delete(UserToken, object_id, res))
           /\ UNCHANGED access_token

get_app_access_token ==
    /\ Invoke
    /\ \E mint_res \in MintResponsesFor(access_token) :
           LET run == AppAPI_get_app_access_token(access_token, mint_res)
           IN  /\ last' = Call("AppAPI", "get_app_access_token", access_token,
                               EmptyDict, run)
               /\ access_token' = run.token

\* the extra keywords that go with a metric: any with the metric that has
\* a '/' in it, none with the others
MetricKwargs(metric) ==
    IF Truthy(metric) THEN Kwargs ELSE {EmptyDict}

analytics ==
    /\ Invoke
    /\ \E metric \in Metrics, mint_res \in MintResponsesFor(access_token) :
       \E kwargs \in MetricKwargs(metric),
          res \in ResponsesAfter(access_token, mint_res) :
           LET run == AppAPI_analytics(access_token, metric, kwargs, mint_res, res)
           IN  /\ last' = CallWith("AppAPI", "analytics", access_token, kwargs,
                                   metric, run)
               /\ access_token' = run.token

get_list_of_test_users ==
    /\ Invoke
    /\ \E kwargs \in Kwargs,
          mint_res \in MintResponsesFor(access_token) :
       \E res \in ResponsesAfter(access_token, mint_res) :
           LET run == AppAPI_get_list_of_test_users(access_token, kwargs,
                                                    mint_res, res)
           IN  /\ last' = Call("AppAPI", "get_list_of_test_users", access_token,
                               kwargs, run)
               /\ access_token' = run.token

\* the extra keywords that go with the arguments of create_test_user: any
\* with the defaults, none with arguments of the caller's
TestUserKwargs(args) ==
    IF \A k \in DOMAIN args : args[k] = Omitted THEN Kwargs ELSE {EmptyDict}

create_test_user ==
    /\ Invoke
    /\ \E args \in TestUserArgs, mint_res \in MintResponsesFor(access_token) :
       \E kwargs \in TestUserKwargs(args),
          res \in ResponsesAfter(access_token, mint_res) :
           LET run == AppAPI_create_test_user(access_token, args.installed,
                                              args.name, args.locale,
                                              args.permissions, args.method,
                                              kwargs, mint_res, res)
           IN  /\ last' = CallWith("AppAPI", "create_test_user", access_token,
                                   kwargs, PyDict(args), run)
               /\ access_token' = run.token

page_message_tags ==
    /\ Invoke
    /\ \E res \in Responses :
           /\ last' = Call("SendAPI", "page_message_tags", PyNone, EmptyDict,
                           SendAPI_page_message_tags(PageToken, res))
           /\ UNCHANGED access_token

send_message ==
    /\ Invoke
    /\ \E message \in Messages, res \in Responses :
           /\ last' = CallWith("SendAPI", "send_message", PyNone, EmptyDict,
                               message,
                               SendAPI_send_message(PageToken, message, res))
           /\ UNCHANGED access_token

Next ==
    \/ get_objects
    \/ get_connections
    \/ publish
    \/ delete
    \/ get_app_access_token
    \/ analytics
    \/ get_list_of_test_users
    \/ create_test_user
    \/ page_message_tags
    \/ send_message

Spec == Init /\ [][Next]_vars

(***************************************************************************)
(* Two callers inside AppAPI._call_api of one instance.  Each statement    *)
(* that reads or writes self.access_token, and each transport call, is a   *)
(* step of its own; the interpreter runs one caller's step at a time.      *)
(***************************************************************************)
\* the token endpoint answers every mint request with a fresh or repeated token
ConcMintResponses ==
    {Response(200, PyDict([access_token |-> tok])) : tok \in MintTokens}

ConcResponses == {Response(200, PyDict([data |-> PyList(<<>>)])),
                  Response(400, OAuthError)}

ConcKwargs == {EmptyDict, [access_token |-> PyStr("caller-token")]}

ConcMethods == {"analytics", "get_list_of_test_users", "create_test_user"}

\* both callers have entered an authenticated method; no token is cached
ConcInit ==
    /\ access_token = PyNone
    /\ last = NoCall
    /\ calls = 0
    /\ callers \in [Callers ->
                      {Caller("check", method, kwargs, PyNone, EmptyDict, <<>>) :
                           method \in ConcMethods, kwargs \in ConcKwargs}]

\* `if not self.access_token:` reads the shared attribute and branches
call_api_check(c) ==
    /\ callers[c].pc = "check"
    /\ callers' = [callers EXCEPT ![c].pc =
                       IF ~Truthy(access_token) THEN "mint" ELSE "params"]
    /\ UNCHANGED <<access_token, last, calls>>

\* _get_access_token up to the assignment: the mint request and its answer
get_access_token_request(c) ==
    /\ callers[c].pc = "mint"
    /\ \E mint_res \in ConcMintResponses :
           LET run == AppAPI_get_access_token(PyNone, mint_res)
           IN  callers' = [callers EXCEPT ![c].pc = "store",
                                          ![c].minted = run.token,
                                          ![c].sent = @ \o run.sent]
    /\ UNCHANGED <<access_token, last, calls>>

\* `self.access_token = json_data.get('access_token')`
get_access_token_store(c) ==
    /\ callers[c].pc = "store"
    /\ access_token' = callers[c].minted
    /\ callers' = [callers EXCEPT ![c].pc = "params"]
    /\ UNCHANGED <<last, calls>>

\* `params = dict(access_token=self.access_token); params.update(kwargs)`
call_api_params(c) ==
    /\ callers[c].pc = "params"
    /\ callers' = [callers EXCEPT
                       ![c].pc = "request",
                       ![c].params = DictUpdate([access_token |-> access_token],
                                                callers[c].kwargs)]
    /\ UNCHANGED <<access_token, last, calls>>

\* the api_method each public method passes to _call_api
ApiMethod(method) ==
    IF method = "analytics" THEN "insights" ELSE "accounts/test-users"

\* `res = requests.request(http_method, url, params=params)` and the rest
call_api_request(c) ==
    /\ callers[c].pc = "request"
    /\ \E res \in ConcResponses :
           LET url == JoinSlash(<<api_url, app_id, ApiMethod(callers[c].method)>>)
               req == HttpRequest("GET", url, callers[c].params, PyNone)
           IN  callers' = [callers EXCEPT ![c].pc = "done",
                                          ![c].sent = @ \o <<Exchange(req, res)>>]
    /\ UNCHANGED <<access_token, last, calls>>

ConcNext ==
    \E c \in Callers :
        \/ call_api_check(c)
        \/ get_access_token_request(c)
        \/ get_access_token_store(c)
        \/ call_api_params(c)
        \/ call_api_request(c)

ConcSpec == ConcInit /\ [][ConcNext]_vars

(***************************************************************************)
(* The message builders.  BuildSpec is a caller that constructs builder    *)
(* values, calls build() on what it constructed, and hands a constructed   *)
(* or compiled value to SendAPI.send_message; last records each step.      *)
(***************************************************************************)
\* the constructor arguments the caller picks from
RecipientIds == {Omitted, PyNone, PyStr("123")}
PhoneNumbers == {PyNone, PyStr("+1(212)555-2368")}
UserRefs == {PyNone, PyStr("user-ref-1")}
Texts == {Omitted, PyStr("hi")}

\* Recipient(id_='123', ...) with the other three passed as None, and a
\* Recipient that names nobody
RecipientById == Recipient(PyStr("123"), PyNone, PyNone, PyNone).value
RecipientOfNobody == Recipient(PyNone, PyNone, PyNone, PyNone).value

ImageAttachment ==
    Attachment(PyStr("image"),
               Payload(PyStr("https://x/shirt.png"), Omitted, Omitted, Omitted).value).value

QuickReplies ==
    {Omitted,
     PyList(<<QuickReply(PyStr("text"), PyStr("Red"), PyStr("RED"), Omitted).value>>)}

BuyButton == URLButton(PyStr("Buy"), PyStr("https://x"), Omitted, Omitted, Omitted, Omitted)

\* what a caller may give a ShareButton to share: a generic template
\* message written by hand
ShareContents ==
    PyDict([attachment |->
              PyDict([type |-> PyStr("template"),
                      payload |-> PyDict([template_type |-> PyStr("generic")])])])

\* constructed buttons of each variant
Buttons ==
    {BuyButton,
     URLButton(PyStr("Buy"), PyStr("https://x"), Omitted, PyBool(FALSE),
               Omitted, Omitted),
     PostbackButton(PyStr("Start"), PyStr("START")),
     ShareButton(Omitted),
     ShareButton(ShareContents),
     CallButton(PyStr("Call"), PyStr("+16505551234")),
     LogOutButton}

ButtonLists == {Omitted} \cup {PyList(<<b.value>>) : b \in Buttons}

ShirtElement(buttons) == GenericElement(PyStr("Shirt"), Omitted, Omitted, Omitted, buttons)

\* the construction of a template of the given variant around a button list
NewTemplate(cls, recipient, buttons) ==
    CASE cls = "GenericTemplate" ->
            GenericTemplate(recipient, PyList(<<ShirtElement(buttons).value>>))
      [] cls = "ListTemplate" ->
            ListTemplate(recipient, PyList(<<ShirtElement(Omitted).value>>),
                         Omitted, buttons)
      [] cls = "ButtonTemplate" ->
            ButtonTemplate(recipient, PyStr("Pick one"), buttons)

\* what a caller writes by hand around compiled parts: the request body
\* {recipient, message} and a template message around compiled buttons
Envelope(message) ==
    PyDict([recipient |-> PyDict([id |-> PyStr("123")]), message |-> message])

TemplateMessage(cls, buttons) ==
    PyDict([attachment |->
              PyDict([type |-> PyStr("template"),
                      payload |-> PyDict([template_type |-> PyStr(template_type(cls)),
                                          text |-> PyStr("Pick one"),
                                          buttons |-> PyList(buttons)])])])

\* what the caller may pass to send_message after a step that returned v:
\* v itself, a compiled Message inside a request body, a compiled button
\* inside a template message of any variant
Sendable(call) ==
    LET v == call.outcome.value
    IN  {v}
        \cup (IF call.method = "build" /\ call.api = "Message"
              THEN {Envelope(v)} ELSE {})
        \cup (IF call.method = "build" /\ call.api \in ButtonVariants
              THEN {Envelope(TemplateMessage(cls, <<v>>)) : cls \in TemplateVariants}
              ELSE {})

SendResponses == {Response(200, PyDict([message_id |-> PyStr("mid.1")])),
                  Response(400, OAuthError)}

\* a constructor call of class cls with arguments args that ended as outcome
Constructed(cls, args, outcome) ==
    CallWith(cls, "__init__", PyNone, EmptyDict, PyDict(args),
             Run(PyNone, <<>>, outcome))

\* the message of a Request: none, or a Message with or without text
RequestMessages ==
    {Omitted} \cup {Message(text, Omitted, Omitted, Omitted).value : text \in Texts}
SenderActions == {Omitted, PyStr("typing_on")}
Tags == {Omitted, PyEnum("MessageTag", "SHIPPING_UPDATE")}

\* the fields of a Payload: left out, or given a value that is false
PayloadUrls == {Omitted, PyStr(""), PyStr("https://x/shirt.png")}
AttachmentIds == {Omitted, PyInt(0)}
Reusables == {Omitted, PyBool(FALSE), PyBool(TRUE)}

PaymentTypes ==
    {Omitted, PyEnum("PaymentType", "FIXED_AMOUNT"),
     PyEnum("PaymentType", "FLEXIBLE_AMOUNT")}
UserInfos == {PyList(<<>>), PyList(<<PyStr("contact_name")>>)}
TestPayments == {Omitted, PyBool(FALSE)}
ShirtPrice == PriceList(PyStr("Shirt"), PyStr("29.99")).value

BuildInit == Init

new_Recipient ==
    /\ Invoke
    /\ \E id_ \in RecipientIds, phone_number \in PhoneNumbers, user_ref \in UserRefs :
           last' = Constructed("Recipient",
                               [id_ |-> id_, phone_number |-> phone_number,
                                user_ref |-> user_ref, name |-> PyNone],
                               Recipient(id_, phone_number, user_ref, PyNone))
    /\ UNCHANGED access_token

new_Message ==
    /\ Invoke
    /\ \E text \in Texts, attachment \in {Omitted, ImageAttachment},
          quick_replies \in QuickReplies :
           last' = Constructed("Message",
                               [text |-> text, attachment |-> attachment,
                                quick_replies |-> quick_replies],
                               Message(text, attachment, quick_replies, Omitted))
    /\ UNCHANGED access_token

new_Request ==
    /\ Invoke
    /\ \E recipient \in {RecipientById, RecipientOfNobody},
          message \in RequestMessages, sender_action \in SenderActions,
          tag \in Tags :
           last' = Constructed("Request",
                               [recipient |-> recipient, message |-> message,
                                sender_action |-> sender_action, tag |-> tag],
                               Request(PyEnum("MessagingType", "RESPONSE"),
                                       recipient, message,
                                       sender_action, Omitted, tag))
    /\ UNCHANGED access_token

new_Payload ==
    /\ Invoke
    /\ \E url \in PayloadUrls, attachment_id \in AttachmentIds,
          is_reusable \in Reusables :
           last' = Constructed("Payload",
                               [url |-> url, attachment_id |-> attachment_id,
                                is_reusable |-> is_reusable],
                               Payload(url, Omitted, attachment_id, is_reusable))
    /\ UNCHANGED access_token

new_PaymentSummary ==
    /\ Invoke
    /\ \E payment_type \in PaymentTypes, requested_user_info \in UserInfos,
          is_test_payment \in TestPayments :
           last' = Constructed("PaymentSummary",
                               [payment_type |-> payment_type,
                                requested_user_info |-> requested_user_info,
                                is_test_payment |-> is_test_payment],
                               PaymentSummary(PyStr("USD"), payment_type,
                                              PyStr("Peter's Apparel"),
                                              requested_user_info,
                                              PyList(<<ShirtPrice>>),
                                              is_test_payment))
    /\ UNCHANGED access_token

new_Button ==
    /\ Invoke
    /\ \E made \in Buttons :
           last' = Constructed(made.value.cls, made.value.syntax, made)
    /\ UNCHANGED access_token

new_GenericElement ==
    /\ Invoke
    /\ \E buttons \in ButtonLists :
           last' = Constructed("GenericElement",
                               [title |-> PyStr("Shirt"), buttons |-> buttons],
                               ShirtElement(buttons))
    /\ UNCHANGED access_token

new_Template ==
    /\ Invoke
    /\ \E cls \in TemplateVariants, buttons \in ButtonLists :
           last' = Constructed(cls,
                               [recipient |-> RecipientById, buttons |-> buttons],
                               NewTemplate(cls, RecipientById, buttons))
    /\ UNCHANGED access_token

\* the value build() is called on next: the one the constructor returned,
\* or the one the last build() left behind
Builder(call) ==
    IF call.method = "__init__" THEN call.outcome.value ELSE call.arg

\* the caller calls build() on the value the last step returned, or once
\* more on the value it has just compiled; the step records the value as
\* the call leaves it and what the call returned
call_build ==
    /\ Invoke
    /\ last.method \in {"__init__", "build"}
    /\ last.outcome.kind = "return"
    /\ last' = CallWith(last.api, "build", PyNone, EmptyDict,
                        IF HasBuild(Builder(last))
                        THEN self_after_build(Builder(last)) ELSE Builder(last),
                        Run(PyNone, <<>>, CallBuild(Builder(last))))
    /\ UNCHANGED access_token

\* the caller sends what it constructed or compiled
send_built ==
    /\ Invoke
    /\ last.method \in {"__init__", "build"}
    /\ last.outcome.kind = "return"
    /\ \E message \in Sendable(last), res \in SendResponses :
           last' = CallWith("SendAPI", "send_message", PyNone, EmptyDict, message,
                           SendAPI_send_message(PageToken, message, res))
    /\ UNCHANGED access_token

BuildNext ==
    \/ new_Recipient
    \/ new_Message
    \/ new_Request
    \/ new_Payload
    \/ new_PaymentSummary
    \/ new_Button
    \/ new_GenericElement
    \/ new_Template
    \/ call_build
    \/ send_built

BuildSpec == BuildInit /\ [][BuildNext]_vars

(***************************************************************************)
(* What the claims speak of.                                               *)
(***************************************************************************)
\* the methods that go through UserAPI._call_api or AppAPI._call_api
GraphMethods ==
    {"get_objects", "get_connections", "publish", "delete",
     "analytics", "get_list_of_test_users", "create_test_user"}

\* the AppAPI methods that send an authenticated request
AuthMethods == {"analytics", "get_list_of_test_users", "create_test_user"}

\* the decoded body has a top-level 'error' key
HasErrorKey(body) == body.t = "dict" /\ "error" \in DOMAIN body.m

\* the exchange that ended the invocation, and the requests to the target
Final(call) == call.sent[Len(call.sent)]
Targets(call) == {i \in 1..Len(call.sent) : ~IsMint(call.sent[i])}

\* the last invocation got a decoded answer from its target endpoint
Answered(call) ==
    /\ call.sent # <<>>
    /\ ~IsMint(Final(call))
    /\ Final(call).response.body # NotJson

\* the credential the instance behind the last invocation holds
Credential ==
    CASE last.api = "UserAPI" -> UserToken
      [] last.api = "SendAPI" -> PageToken
      [] OTHER -> access_token

\* C1: a UserAPI or AppAPI call raises FacebookError exactly when the decoded
\* body of the answer has a top-level 'error' key, and a body without that
\* key is returned as the result, whatever the status.
C1_ErrorKeyDecides ==
    (last.method \in GraphMethods /\ Answered(last)) =>
        LET body == Final(last).response.body
        IN  /\ (last.outcome.exc = "FacebookError") <=> HasErrorKey(body)
            /\ ~HasErrorKey(body) => last.outcome = Return(body)

\* C2: a raised FacebookError carries the payload unchanged: value is the
\* whole decoded body and message is its nested 'error' object, so code 190
\* and type OAuthException are read from the fault for the OAuth body.
C2_FaultCarriesPayload ==
    (last.outcome.exc = "FacebookError") =>
        /\ last.sent # <<>>
        /\ last.outcome.value = Final(last).response.body
        /\ HasErrorKey(last.outcome.value)
        /\ last.outcome.message = last.outcome.value.m["error"]
        /\ (Final(last).response.body = OAuthError =>
                /\ last.outcome.message.m["code"] = PyInt(190)
                /\ last.outcome.message.m["type"] = PyStr("OAuthException"))

C2_Witness ==
    /\ last.method = "get_objects"
    /\ last.outcome.exc = "FacebookError"
    /\ last.outcome.value = OAuthError
    /\ Final(last).response.status_code = 400

\* C3: in every request a facade call sends to its target, access_token is
\* the instance's own credential, whatever extra parameters the caller gave.
C3_AuthNotOverridden ==
    \A i \in Targets(last) :
        last.sent[i].request.params["access_token"] = Credential

\* two invocations of get_app_access_token in a row
TwiceInARow ==
    /\ last.method = "get_app_access_token"
    /\ last'.method = "get_app_access_token"

\* the first of the two sent a mint request and got a JSON mapping back
FirstMintAnswered ==
    /\ Len(last.sent) = 1
    /\ last.sent[1].response.body.t = "dict"

\* C4 as stated: two get_app_access_token calls in a row send at most one
\* mint request in total and the second returns the cached value, whatever
\* body the first mint request was answered with.
C4_OneMintWhateverAnswer ==
    [][(TwiceInARow /\ FirstMintAnswered) =>
          /\ Mints(last.sent) + Mints(last'.sent) <= 1
          /\ last'.outcome = Return(access_token)]_vars

\* C4, amended: when the first call returned a non-empty token, the second
\* sends nothing and returns that cached token (one mint request at most in
\* total); when the first call raised or returned no token, the second call
\* sends exactly one new mint request.
C4_SecondCallUsesCache ==
    [][TwiceInARow =>
          /\ Mints(last.sent) <= 1
          /\ IF last.outcome.kind = "return" /\ Truthy(last.outcome.value)
             THEN /\ last'.sent = <<>>
                  /\ last'.outcome = Return(last.outcome.value)
                  /\ access_token' = access_token
             ELSE /\ Len(last'.sent) = 1
                  /\ IsMint(last'.sent[1])]_vars

C4_Witness ==
    /\ calls >= 2
    /\ last.method = "get_app_access_token"
    /\ last.pre \in MintTokens
    /\ last.sent = <<>>
    /\ last.outcome = Return(last.pre)

\* C5: an authenticated AppAPI method called with no token cached sends
\* the mint request first, stores the token it returned, and then sends the
\* original request with exactly that token as access_token.
C5_MintStoreThenCall ==
    (last.method \in AuthMethods /\ ~Truthy(last.pre)) =>
        /\ last.sent # <<>>
        /\ IsMint(last.sent[1])
        /\ LET answer == last.sent[1].response.body
           IN  (answer.t = "dict" /\ DictGet(answer, "access_token") \in MintTokens) =>
                   /\ Len(last.sent) = 2
                   /\ ~IsMint(last.sent[2])
                   /\ access_token = DictGet(answer, "access_token")
                   /\ last.sent[2].request.params["access_token"] =
                          DictGet(answer, "access_token")

\* C6: the mint response goes through the error check: when its body has an
\* 'error' key, get_app_access_token and the authenticated AppAPI methods
\* raise FacebookError carrying that body, and send nothing further.
C6_MintErrorRaises ==
    (/\ last.api = "AppAPI"
     /\ last.sent # <<>>
     /\ IsMint(last.sent[1])
     /\ HasErrorKey(last.sent[1].response.body)) =>
        /\ last.outcome.exc = "FacebookError"
        /\ last.outcome.value = last.sent[1].response.body
        /\ Len(last.sent) = 1

C6_Witness ==
    /\ last.method = "analytics"
    /\ Len(last.sent) = 1
    /\ last.sent[1].response.body = OAuthError
    /\ last.outcome.exc = "FacebookError"

\* C7: a decoded body that is not a mapping (a bare boolean, a bare string,
\* also one containing the text 'error') makes UserAPI and AppAPI calls raise
\* nothing and is passed through as the result.
C7_NonMappingPassesThrough ==
    (/\ last.method \in GraphMethods
     /\ Answered(last)
     /\ Final(last).response.body.t \in {"bool", "str"}) =>
        last.outcome = Return(Final(last).response.body)

\* the mint request of the last invocation ended in a fault
MintFaulted(call) ==
    /\ Len(call.sent) = 1
    /\ IsMint(call.sent[1])
    /\ call.outcome.kind = "raise"

\* the exchange put a request on the wire: requests did not raise before
OnWire(ex) == ex.response # Refused

\* the target requests of the invocation that went out on the wire
Wire(call) == {i \in Targets(call) : OnWire(call.sent[i])}

\* the transport raised while encoding the body it was handed
RefusedByTransport(call) ==
    /\ call.sent # <<>>
    /\ ~OnWire(Final(call))

\* C8 as stated: every invocation of a method with a target endpoint sends
\* exactly one request to that endpoint, after at most one mint request, and
\* makes no more than two transport calls.
C8_ExactlyOneTargetRequest ==
    (calls > 0 /\ last.method # "get_app_access_token") =>
        /\ Cardinality(Targets(last)) = 1
        /\ Mints(last.sent) <= 1
        /\ Len(last.sent) <= 2

\* C8, amended: an invocation sends at most one request to its target
\* endpoint: exactly one, but none when the mint request before it ended in a
\* fault or when the transport raised on a body it could not encode;
\* get_app_access_token sends the mint request alone, and nothing when a
\* token is cached.  At most one mint request comes first, sent only
\* by an AppAPI with no token cached; no request is sent again after a
\* fault, and there are never more than two transport calls.
C8_NoRetry ==
    calls > 0 =>
        /\ Len(last.sent) <= 2
        /\ Mints(last.sent) <= 1
        /\ Mints(last.sent) = 1 =>
               /\ last.api = "AppAPI"
               /\ ~Truthy(last.pre)
               /\ IsMint(last.sent[1])
        /\ last.method = "get_app_access_token" =>
               Len(last.sent) = IF Truthy(last.pre) THEN 0 ELSE 1
        /\ last.method # "get_app_access_token" =>
               /\ Cardinality(Targets(last)) = IF MintFaulted(last) THEN 0 ELSE 1
               /\ Cardinality(Wire(last)) =
                      IF MintFaulted(last) \/ RefusedByTransport(last) THEN 0 ELSE 1
               /\ Targets(last) # {} => ~IsMint(Final(last))
               /\ (last.api = "AppAPI" /\ ~Truthy(last.pre)) => IsMint(last.sent[1])

C8_Witness ==
    /\ last.method = "get_list_of_test_users"
    /\ Len(last.sent) = 2
    /\ IsMint(last.sent[1])
    /\ last.outcome.exc = "FacebookError"

\* C9: SendAPI.send_message and SendAPI.page_message_tags raise
\* FacebookError whenever the decoded response body has a top-level 'error'
\* key.
C9_SendApiChecksErrors ==
    (/\ last.api = "SendAPI"
     /\ last.sent # <<>>
     /\ HasErrorKey(Final(last).response.body)) =>
        last.outcome.exc = "FacebookError"

\* C10: every request to an endpoint other than the token endpoint carries
\* an access_token parameter whose value is a non-empty string.
C10_TargetsCarryToken ==
    \A i \in Targets(last) :
        LET params == last.sent[i].request.params
        IN  /\ "access_token" \in DOMAIN params
            /\ params["access_token"].t = "str"
            /\ params["access_token"].s # ""

\* C11: once the AppAPI instance holds a non-empty token, no later
\* invocation of any of its methods, whether it returns or ends in a fault,
\* changes the cached token or sends a mint request.
C11_CachedTokenStays ==
    [][Truthy(access_token) =>
          /\ access_token' = access_token
          /\ Mints(last'.sent) = 0]_vars

C11_Witness ==
    /\ calls >= 2
    /\ last.api = "AppAPI"
    /\ last.method \in AuthMethods
    /\ last.pre \in MintTokens
    /\ last.outcome.kind = "raise"
    /\ access_token = last.pre
    /\ Len(last.sent) = 1

\* the tokens the token endpoint has returned to the two callers so far
MintedSoFar == {callers[c].minted : c \in Callers} \ {PyNone}

\* the requests caller c has sent to its target endpoint
TargetsOf(c) == {i \in 1..Len(callers[c].sent) : ~IsMint(callers[c].sent[i])}

\* C12: two callers inside authenticated methods of one AppAPI instance
\* that had no token cached, every mint request answered with a token: in
\* every interleaving each caller sends at most one mint request, every
\* target request carries a token that one of the mint requests returned,
\* and when both are done the cached token is one of the minted tokens.
C12_RaceTolerated ==
    /\ \A c \in Callers :
           /\ Mints(callers[c].sent) <= 1
           /\ \A i \in TargetsOf(c) :
                  callers[c].sent[i].request.params["access_token"] \in MintedSoFar
    /\ (\A c \in Callers : callers[c].pc = "done") => access_token \in MintedSoFar

\* the same for callers that pass no access_token keyword of their own
C12_RaceToleratedWithoutOverride ==
    (\A c \in Callers : "access_token" \notin DOMAIN callers[c].kwargs) =>
        C12_RaceTolerated

\* both callers minted, each a different token, and both are done
C12_BothMinted ==
    /\ \A c \in Callers : callers[c].pc = "done" /\ callers[c].minted # PyNone
    /\ callers["caller-1"].minted # callers["caller-2"].minted
    /\ \A c \in Callers : "access_token" \notin DOMAIN callers[c].kwargs

\* the values the claim names for the parameters the caller leaves out
C20_Defaults ==
    [installed |-> PyBool(TRUE), name |-> PyStr("John Smith"),
     locale |-> PyStr("en_US"), method |-> PyStr("post")]

\* C20: every request create_test_user sends to its target is an HTTP GET to
\* the path accounts/test-users, and its parameters installed, name, locale
\* and method hold the caller's values where given and true, 'John Smith',
\* 'en_US' and 'post' where not; with only name='Serg Ivanov' given they are
\* true, 'Serg Ivanov', 'en_US', 'post'.
C20_CreateTestUserIsGet ==
    (last.method = "create_test_user") =>
        \A i \in Targets(last) :
            LET req == last.sent[i].request
                args == last.arg.m
            IN  /\ req.http_method = "GET"
                /\ req.url = JoinSlash(<<api_url, app_id, "accounts/test-users">>)
                /\ \A k \in DOMAIN C20_Defaults :
                       /\ k \in DOMAIN req.params
                       /\ req.params[k] =
                              IF args[k] = Omitted THEN C20_Defaults[k] ELSE args[k]
                /\ (args.name = PyStr("Serg Ivanov")) =>
                       /\ req.params["installed"] = PyBool(TRUE)
                       /\ req.params["name"] = PyStr("Serg Ivanov")
                       /\ req.params["locale"] = PyStr("en_US")
                       /\ req.params["method"] = PyStr("post")

C20_Witness ==
    /\ last.method = "create_test_user"
    /\ last.arg.m.name = PyStr("Serg Ivanov")
    /\ last.arg.m.installed = Omitted
    /\ Len(last.sent) = 2
    /\ last.sent[2].request.http_method = "GET"
    /\ last.sent[2].request.params["name"] = PyStr("Serg Ivanov")
    /\ last.outcome.kind = "return"

\* C13: build() compiles nested builder values too: what a build() call
\* returns, and what send_message hands to the transport for a value that
\* has a build method, holds only mappings, sequences and scalars.
C13_CompiledIsPlainJson ==
    /\ (last.method = "build" /\ last.outcome.kind = "return") =>
           JsonSerializable(last.outcome.value)
    /\ (last.method = "send_message" /\ HasBuild(last.arg)) =>
           \A i \in 1..Len(last.sent) : JsonSerializable(last.sent[i].request.json)

\* no field of v, or of a value nested in v, is held with the value None
RECURSIVE NoUnsetKey(_)
NoUnsetKey(v) ==
    CASE v.t = "dict" ->
            \A k \in DOMAIN v.m : v.m[k] # PyNone /\ NoUnsetKey(v.m[k])
      [] v.t = "list" -> \A i \in 1..Len(v.l) : NoUnsetKey(v.l[i])
      [] v.t = "obj" ->
            \A k \in DOMAIN v.syntax : v.syntax[k] # PyNone /\ NoUnsetKey(v.syntax[k])
      [] OTHER -> TRUE

\* C14: the compiled form of a builder value has every key whose field was
\* given a value and no key whose field was left None, and the same is true
\* of every value nested in it.
C14_UnsetFieldsAbsent ==
    (last.method = "build" /\ last.outcome.kind = "return") =>
        LET source == last.arg.syntax
            compiled == last.outcome.value
        IN  /\ compiled.t = "dict"
            /\ \A k \in DOMAIN source : (source[k] # PyNone) <=> (k \in DOMAIN compiled.m)
            /\ NoUnsetKey(compiled)

\* the identifying fields a Recipient was constructed with
IdentifyingGiven(args) ==
    {k \in {"id_", "phone_number", "user_ref"} : args[k] \notin {PyNone, Omitted}}

\* C15: constructing a Recipient with none or more than one of id,
\* phone_number and user_ref raises, and the compiled form of a Recipient
\* has exactly one of the three as a key.
C15_RecipientExactlyOne ==
    /\ (last.api = "Recipient" /\ last.method = "__init__") =>
           (Cardinality(IdentifyingGiven(last.arg.m)) # 1 => last.outcome.kind = "raise")
    /\ (last.api = "Recipient" /\ last.method = "build") =>
           /\ last.outcome.kind = "return"
           /\ Cardinality({"id", "phone_number", "user_ref"}
                           \cap DOMAIN last.outcome.value.m) = 1

\* the classes of the buttons in a list of button objects
ButtonClassesIn(buttons) ==
    IF buttons = Omitted THEN {}
    ELSE {buttons.l[i].cls : i \in 1..Len(buttons.l)}

\* the (button class, template class) pairs in a request body: the template
\* under message.attachment.payload and the buttons in its list
IsTemplateMessage(json) ==
    /\ json.t = "dict" /\ "message" \in DOMAIN json.m
    /\ json.m["message"].t = "dict"
    /\ "attachment" \in DOMAIN json.m["message"].m
    /\ json.m["message"].m["attachment"].t = "dict"
    /\ json.m["message"].m["attachment"].m["type"] = PyStr("template")

PairsIn(json) ==
    IF IsTemplateMessage(json)
    THEN LET payload == json.m["message"].m["attachment"].m["payload"]
         IN  {<<b, cls>> \in ButtonVariants \X TemplateVariants :
                 /\ payload.m["template_type"] = PyStr(template_type(cls))
                 /\ \E i \in 1..Len(payload.m["buttons"].l) :
                        payload.m["buttons"].l[i].m["type"] = PyStr(type_(b))}
    ELSE {}

\* C16: constructing a template around a button whose templates attribute
\* does not list the template's class raises, and send_message given a
\* template message with such a button raises and puts no request on the
\* wire.
C16_IncompatibleButtonRejected ==
    /\ (last.api \in TemplateVariants /\ last.method = "__init__") =>
           ((\E b \in ButtonClassesIn(last.arg.m["buttons"]) :
                 last.api \notin templates(b))
            => last.outcome.kind = "raise")
    /\ (last.method = "send_message" /\ last.arg.t = "dict") =>
           ((\E pair \in PairsIn(last.arg) : pair[2] \notin templates(pair[1]))
            => (last.outcome.kind = "raise" /\ Wire(last) = {}))

\* a message object with neither text nor attachment
LacksTextAndAttachment(message) ==
    /\ message.t = "dict"
    /\ "text" \notin DOMAIN message.m
    /\ "attachment" \notin DOMAIN message.m

\* C17: no request send_message puts on the wire carries a message object
\* without text and without attachment, neither as the body compiled from a
\* Message nor as the message member of the body.
C17_EmptyMessageRejected ==
    (last.method = "send_message") =>
        \A i \in Wire(last) :
            LET json == last.sent[i].request.json
            IN  /\ (last.arg.t = "obj" /\ last.arg.cls = "Message") =>
                       ~LacksTextAndAttachment(json)
                /\ (json.t = "dict" /\ "message" \in DOMAIN json.m) =>
                       ~LacksTextAndAttachment(json.m["message"])

\* the compiled form of GenericTemplate(recipient id '123', one element
\* titled 'Shirt' with one URLButton 'Buy' to 'https://x')
C18_ShirtTemplate ==
    Envelope(PyDict([attachment |->
        PyDict([type |-> PyStr("template"),
                payload |->
                    PyDict([template_type |-> PyStr("generic"),
                            elements |-> PyList(<<
                                PyDict([title |-> PyStr("Shirt"),
                                        buttons |-> PyList(<<
                                            PyDict([type |-> PyStr("web_url"),
                                                    url |-> PyStr("https://x"),
                                                    title |-> PyStr("Buy")])>>)])>>)])])]))

\* C18: every template variant can be constructed and compiles to
\* {recipient, message: {attachment: {type: 'template', payload:
\* {template_type: its tag, ...}}}}; the GenericTemplate of the example
\* compiles to exactly C18_ShirtTemplate.
C18_TemplateShape ==
    /\ (last.api \in TemplateVariants /\ last.method = "__init__") =>
           last.outcome.kind = "return"
    /\ (last.api \in TemplateVariants /\ last.method = "build") =>
           /\ last.outcome.kind = "return"
           /\ LET compiled == last.outcome.value
              IN  /\ DOMAIN compiled.m = {"recipient", "message"}
                  /\ compiled.m["message"].m["attachment"].m["type"] = PyStr("template")
                  /\ compiled.m["message"].m["attachment"].m["payload"].m["template_type"]
                         = PyStr(template_type(last.api))
    /\ (/\ last.api = "GenericTemplate" /\ last.method = "build"
        /\ last.arg = NewTemplate("GenericTemplate", RecipientById,
                                  PyList(<<BuyButton.value>>)).value) =>
           last.outcome.value = C18_ShirtTemplate

\* C19: send_message makes exactly one request, a POST to
\* https://graph.facebook.com/v2.6/me/messages that goes out with the
\* instance's access_token as its only query parameter; its JSON body is
\* build() of a value that has a build method, and a mapping itself.
C19_SendMessagePosts ==
    (last.method = "send_message" /\ (HasBuild(last.arg) \/ last.arg.t = "dict")) =>
        /\ Len(last.sent) = 1
        /\ OnWire(last.sent[1])
        /\ last.sent[1].request.http_method = "POST"
        /\ last.sent[1].request.url = "https://graph.facebook.com/v2.6/me/messages"
        /\ last.sent[1].request.params = [access_token |-> PageToken]
        /\ last.sent[1].request.json =
               IF HasBuild(last.arg) THEN build(last.arg) ELSE last.arg

\* the facade methods that take extra keywords of the caller
KeywordMethods ==
    {"get_objects", "get_connections", "publish",
     "analytics", "get_list_of_test_users", "create_test_user"}

\* C21 as stated: every extra keyword a caller passes to get_objects,
\* get_connections, publish, analytics, get_list_of_test_users or
\* create_test_user is a parameter of the request to the target, unchanged.
C21_KeywordsAreParams ==
    last.method \in KeywordMethods =>
        \A i \in Targets(last) : \A k \in DOMAIN last.kwargs :
            /\ k \in DOMAIN last.sent[i].request.params
            /\ last.sent[i].request.params[k] = last.kwargs[k]

\* C21, amended: every extra keyword but `files` is a parameter of the
\* request to the target, unchanged; the keyword `files` is no parameter of
\* the request, its value is what the request uploads.
C21_KeywordsForwarded ==
    last.method \in KeywordMethods =>
        \A i \in Targets(last) :
            LET request == last.sent[i].request
            IN  /\ \A k \in DOMAIN last.kwargs \ {"files"} :
                       /\ k \in DOMAIN request.params
                       /\ request.params[k] = last.kwargs[k]
                /\ "files" \notin DOMAIN request.params
                /\ request.files = IF "files" \in DOMAIN last.kwargs
                                   THEN last.kwargs["files"] ELSE PyNone

C21_Witness ==
    /\ last.method = "get_connections"
    /\ last.outcome.kind = "return"
    /\ Len(last.sent) = 1
    /\ "fields" \in DOMAIN last.kwargs
    /\ last.sent[1].request.params["fields"] = PyStr("first_name")
    /\ last.sent[1].request.files = PyDict([source |-> PyStr("photo.jpg")])

\* C22: delete sends one DELETE request to the path of the object it is
\* given, whatever the object, with no body and the access_token as its only
\* parameter.
C22_DeleteRequest ==
    last.method = "delete" =>
        /\ Len(last.sent) = 1
        /\ last.sent[1].request.http_method = "DELETE"
        /\ last.sent[1].request.url = api_url \o "/" \o last.arg.s
        /\ last.sent[1].request.json = PyNone
        /\ last.sent[1].request.files = PyNone
        /\ last.sent[1].request.params = [access_token |-> UserToken]

C22_Witness ==
    /\ last.method = "delete"
    /\ last.arg = PyStr("1234567890/picture")
    /\ last.outcome.kind = "return"
    /\ last.sent[1].request.http_method = "DELETE"

\* C23: analytics sends a GET to 'insights' below the application when no
\* metric or the empty metric is given and to 'insights/{metric}' otherwise,
\* also for a metric that has a '/' in it.
C23_AnalyticsPath ==
    last.method = "analytics" =>
        \A i \in Targets(last) :
            /\ last.sent[i].request.http_method = "GET"
            /\ last.sent[i].request.url =
                   IF last.arg \in {PyNone, PyStr("")}
                   THEN api_url \o "/" \o app_id \o "/insights"
                   ELSE api_url \o "/" \o app_id \o "/insights/" \o last.arg.s

C23_Witness ==
    /\ last.method = "analytics"
    /\ last.arg = PyStr("application_canvas_views/day")
    /\ last.outcome.kind = "return"
    /\ Final(last).request.url =
           api_url \o "/" \o app_id \o "/insights/application_canvas_views/day"

\* the mint request of the invocation was answered with an 'error' key
MintAnsweredError(call) ==
    /\ call.sent # <<>>
    /\ IsMint(call.sent[1])
    /\ HasErrorKey(call.sent[1].response.body)

\* C29: when the mint request of an authenticated AppAPI call is answered
\* with an 'error' key, the call raises, the token stays unset and the
\* request to the target is never sent; an authenticated call made while no
\* token is cached, the next one after such an answer included, begins with
\* a mint request of its own.
C29_MintFaultLeavesUnset ==
    [][last'.method \in AuthMethods =>
           /\ MintAnsweredError(last') =>
                  /\ last'.outcome.kind = "raise"
                  /\ ~Truthy(access_token')
                  /\ access_token' = access_token
                  /\ Targets(last') = {}
           /\ (last.method \in AuthMethods /\ MintAnsweredError(last)) =>
                  ~Truthy(access_token)
           /\ ~Truthy(access_token) =>
                  /\ last'.sent # <<>>
                  /\ IsMint(last'.sent[1])]_vars

C29_Witness ==
    /\ last.method = "create_test_user"
    /\ MintFaulted(last)
    /\ HasErrorKey(last.sent[1].response.body)
    /\ access_token = PyNone
    /\ calls >= 2

\* C24: constructing a Request with both a message and a sender_action
\* raises, and a Request with a sender_action compiles to a mapping whose
\* only other key is recipient.
C24_MessageOrSenderAction ==
    /\ (last.api = "Request" /\ last.method = "__init__") =>
           ((last.arg.m["message"] # Omitted /\ last.arg.m["sender_action"] # Omitted)
            => last.outcome.kind = "raise")
    /\ (/\ last.api = "Request" /\ last.method = "build"
        /\ last.arg.syntax["sender_action"] # PyNone) =>
           /\ last.outcome.kind = "return"
           /\ DOMAIN last.outcome.value.m = {"recipient", "sender_action"}

\* C25: the compiled form of a Request and of a PaymentSummary holds, for
\* every field that was given an enum member (messaging_type, tag,
\* payment_type), the member's string value and not the member.
C25_EnumsCompileToStrings ==
    (/\ last.api \in {"Request", "PaymentSummary"}
     /\ last.method = "build" /\ last.outcome.kind = "return") =>
        \A k \in DOMAIN last.outcome.value.m :
            last.arg.syntax[k].t = "enum" =>
                last.outcome.value.m[k] = PyStr(last.arg.syntax[k].value)

C27_UrlAndPostbackTemplates ==
    (last.api \in {"URLButton", "PostbackButton"} /\ last.method = "__init__") =>
        templates(last.api) = {"ButtonTemplate", "GenericTemplate"}

\* C28: a ShareButton given share_contents compiles to type 'element_share'
\* with the contents under the key share_contents, and a ShareButton given
\* none compiles to exactly {type: 'element_share'}.
C28_ShareContentsKey ==
    (last.api = "ShareButton" /\ last.method = "build") =>
        /\ last.outcome.kind = "return"
        /\ last.outcome.value.m =
               IF last.arg = ShareButton(ShareContents).value
               THEN [type |-> PyStr("element_share"),
                     share_contents |-> ShareContents]
               ELSE [type |-> PyStr("element_share")]

\* C30: build() keeps every field whose value is not None under its key
\* with its value, the false values False, 0, '' and [] included, and
\* drops the fields whose value is None.
C30_OnlyNoneDropped ==
    (last.method = "build" /\ last.outcome.kind = "return") =>
        LET source == last.arg.syntax
            compiled == last.outcome.value.m
        IN  /\ DOMAIN compiled = {k \in DOMAIN source : source[k] # PyNone}
            /\ \A k \in DOMAIN compiled : compiled[k] = source[k]

C30_Witness ==
    /\ last.api = "Payload"
    /\ last.method = "build"
    /\ last.arg.syntax = [url |-> PyStr(""), attachment_id |-> PyInt(0),
                          is_reusable |-> PyBool(FALSE)]
    /\ last.outcome = Return(PyDict([url |-> PyStr(""),
                                     attachment_id |-> PyInt(0),
                                     is_reusable |-> PyBool(FALSE)]))


=============================================================================
